---- MODULE Spec2Model ----
(***************************************************************************)
(* A model of tiny-make's cache-aware build scheduler                      *)
(* (src/base/compiler.py, src/base/cache.py, src/base/execute.py,          *)
(* src/base/record.py, src/base/file.py) and of its project analysis       *)
(* (src/base/module.py, src/base/library.py).                              *)
(*                                                                         *)
(* The specifications that share the module:                               *)
(*   Spec        the driver (Compiler.compile) with its child compiler     *)
(*               processes, over repeated invocations;                     *)
(*   SpecCache   Cache.has_cache applied to drawn cache and file states;   *)
(*   SpecRecord  the command line of a compile record;                     *)
(*   SpecInclude the resolution of one include directive (module.py);      *)
(*   SpecModule  analyse_files and the pairing of headers with sources;    *)
(*   SpecLibrary DependencyManager.register_library;                       *)
(*   SpecCompiler  the choice of the compiler and of the language standard;*)
(*   SpecGraph   the construction of the module graph from the link        *)
(*               declarations and the epochs of companion pairing;         *)
(*   SpecAnalyse the recursive analysis of the headers of one module;      *)
(*   SpecRepeat  the driver invoked again and again with nothing edited    *)
(*               and every child succeeding.                               *)
(* A specification leaves the variables of the others at a fixed value.    *)
(*                                                                         *)
(* Change-times are natural numbers, 0 standing for a path that is not on  *)
(* disk.  Every write of a file gets a change-time larger than every       *)
(* earlier one.  The code only compares change-times, so they are kept up  *)
(* to their order: after a write they are renumbered 1, 2, ... densely.    *)
(***************************************************************************)
EXTENDS Naturals, Integers, Sequences, FiniteSets, TLC

VARIABLES
    graph,      \* the analysed include graph (local_headers, companion sources)
    ctime,      \* path -> st_ctime_ns of the path, 0 when the path does not exist
    content,    \* object target -> "none" | "partial" | "complete"
    disk,       \* build/.tiny-make/cache.json: target -> entry
    entries,    \* Cache._entries of the running driver
    pc,         \* where the driver is
    records,    \* Compiler.compile: records (the sources, in the list's order)
    idx,        \* position of the scheduling loop / of wait_for_handles' loop
    procs,      \* Compiler.compile: procs, the handle list (sources, in order)
    proc,       \* source -> the child compiling it: [st, rc, reaped]
    link,       \* the link child: "none" | "running" | "ok" | "failed"
    errs,       \* wait_for_handles: errs
    printed,    \* the entries of errs reported by wait_for_handles
    exitCode,   \* the driver's exit status, -1 while it has none
    touches,    \* number of header edits made
    edited,     \* the headers edited since the last invocation started
    hist,       \* bookkeeping about the run, read by the properties only
    cq,         \* SpecCache: the drawn query and has_cache's answer
    rq,         \* SpecRecord: the drawn record inputs and the commands
    iq,         \* SpecInclude: the drawn modules, the include and its resolution
    mq,         \* SpecModule: a module's lookup tables during analysis and pairing
    lq,         \* SpecLibrary: the dependency manager's library table
    vq,         \* SpecCompiler: the candidate compilers and the selection
    gq,         \* SpecGraph: the modules under construction and their pairing
    aq          \* SpecAnalyse: the header analyses in progress

\* the variables of the specifications of analysis and selection
moreVars == <<iq, mq, lq, vq, gq, aq>>
moreIdle == iq = <<>> /\ mq = <<>> /\ lq = <<>> /\ vq = <<>> /\ gq = <<>> /\ aq = <<>>

vars == <<graph, ctime, content, disk, entries, pc, records, idx, procs,
          proc, link, errs, printed, exitCode, touches, edited, hist, cq, rq, moreVars>>

buildVars == <<graph, ctime, content, disk, entries, pc, records, idx,
               procs, proc, link, errs, printed, exitCode, touches, edited, hist>>

(***************************************************************************)
(* Bounds of the model.                                                    *)
(***************************************************************************)
MaxTouches == 1

Range(s) == {s[k] : k \in DOMAIN s}

\* the change-times renumbered densely, their order kept
Renumber(fs) ==
    [p \in DOMAIN fs |->
        IF fs[p] = 0 THEN 0
        ELSE Cardinality({fs[q] : q \in DOMAIN fs} \cap (1..fs[p]))]

Latest(fs) == CHOOSE n \in Range(fs) : \A m \in Range(fs) : m <= n

\* path p is written (created, rewritten, chmod-ed): its change-time is now
\* later than every other one
Stamp(fs, p) == Renumber([fs EXCEPT ![p] = Latest(fs) + 1])

\* every listing of a set, as Python's iteration over a set may produce it
SeqsOf(S) == {f \in [1..Cardinality(S) -> S] : Range(f) = S}

(***************************************************************************)
(* The files of the modelled project.                                      *)
(***************************************************************************)
MainSource == "main.cpp"
Sources == {"main.cpp", "a.cpp", "b.cpp", "c.cpp"}
Headers == {"a.h", "b.h", "c.h", "d.h"}
NoSource == "-"

\* Source.target: the path without its extension, ".o", under build/
Target(s) ==
    CASE s = "main.cpp" -> "build/main.o"
      [] s = "a.cpp" -> "build/a.o"
      [] s = "b.cpp" -> "build/b.o"
      [] s = "c.cpp" -> "build/c.o"

\* _executable_compile_record: exe = splitext(source.target)[0]
ExeTarget(s) == IF s = "main.cpp" THEN "build/main" ELSE "build/other"

ObjTargets == {Target(s) : s \in Sources \ {MainSource}}
Exe == ExeTarget(MainSource)
Paths == Sources \cup Headers \cup ObjTargets \cup {Exe}

\* the stem-paired companion of a header, when the module has such a source
Companion(h) ==
    CASE h = "a.h" -> "a.cpp"
      [] h = "b.h" -> "b.cpp"
      [] h = "c.h" -> "c.cpp"
      [] OTHER -> NoSource

NoIncl == [f \in Sources \cup Headers |-> {}]

\* the include graphs the driver is run on: local_headers of every file and
\* the companion source attached to every header
Graphs == {
    \* three siblings without dependencies among them
    [name |-> "siblings",
     local |-> [NoIncl EXCEPT !["main.cpp"] = {"a.h", "b.h", "c.h"},
                              !["a.cpp"] = {"a.h"}, !["b.cpp"] = {"b.h"},
                              !["c.cpp"] = {"c.h"}],
     source |-> [h \in Headers |-> Companion(h)]],
    \* a.cpp uses b.h; b.cpp has a private header d.h
    [name |-> "uses",
     local |-> [NoIncl EXCEPT !["main.cpp"] = {"a.h", "b.h"},
                              !["a.cpp"] = {"a.h", "b.h"},
                              !["b.cpp"] = {"b.h", "d.h"}],
     source |-> [h \in Headers |-> IF h = "c.h" THEN NoSource ELSE Companion(h)]],
    \* a.cpp and b.cpp include each other's header
    [name |-> "mutual",
     local |-> [NoIncl EXCEPT !["main.cpp"] = {"a.h", "b.h"},
                              !["a.cpp"] = {"a.h", "b.h"},
                              !["b.cpp"] = {"b.h", "a.h"}],
     source |-> [h \in Headers |-> IF h = "c.h" THEN NoSource ELSE Companion(h)]],
    \* main.cpp reaches b.h only through a.cpp, whose own includes
    \* File.sources does not follow
    [name |-> "hidden",
     local |-> [NoIncl EXCEPT !["main.cpp"] = {"a.h"},
                              !["a.cpp"] = {"a.h", "b.h"},
                              !["b.cpp"] = {"b.h"}],
     source |-> [h \in Headers |-> IF h = "c.h" THEN NoSource ELSE Companion(h)]],
    \* a.h includes b.h, which includes d.h
    [name |-> "chain",
     local |-> [NoIncl EXCEPT !["main.cpp"] = {"a.h"},
                              !["a.h"] = {"b.h"}, !["b.h"] = {"d.h"},
                              !["a.cpp"] = {"a.h"}, !["b.cpp"] = {"b.h"}],
     source |-> [h \in Headers |-> IF h = "c.h" THEN NoSource ELSE Companion(h)]]
    }

(***************************************************************************)
(* src/base/file.py: the transitive views.                                 *)
(***************************************************************************)
RECURSIVE FileHeaders(_, _)
\* File.headers
FileHeaders(g, f) == UNION {{h} \cup FileHeaders(g, h) : h \in g.local[f]}

RECURSIVE FileSources(_, _)
RECURSIVE HeaderSources(_, _)
\* File.sources
FileSources(g, f) == UNION {HeaderSources(g, h) : h \in g.local[f]}

\* Header.sources
HeaderSources(g, h) ==
    FileSources(g, h) \cup (IF g.source[h] # NoSource THEN {g.source[h]} ELSE {})

\* a source that stays in its own sources
SourceSourcesWithSelf(g, s) == FileSources(g, s)

\* Source.sources
SourceSources(g, s) == FileSources(g, s) \ {s}

(***************************************************************************)
(* src/base/compiler.py: the records.                                      *)
(***************************************************************************)
\* Compiler._objects, as a set; its list order is that of a set iteration
Objects(g, s) == {Target(d) : d \in SourceSources(g, s)}

\* Compiler._dependencies: the objects, then the headers, then the source
DependencyLists(g, s) ==
    {o \o h \o <<s>> : o \in SeqsOf(Objects(g, s)), h \in SeqsOf(FileHeaders(g, s))}

Dependencies(g, s) == Objects(g, s) \cup FileHeaders(g, s) \cup {s}

\* Record.command of the object record and of the link record of a source;
\* the scheduler only compares commands, their text is modelled by SpecRecord
ObjCommand(s) == <<"compile", s>>
ExeCommand(s) == <<"link", s>>

HostName == "host"
NoEntry == [hostname |-> "-", command |-> <<>>, dependencies |-> {}]


(***************************************************************************)
(* src/base/cache.py: Cache.has_cache.  The answer is "true", "false", or  *)
(* "raise" when os.stat fails on a path that is not on disk.               *)
(***************************************************************************)
RECURSIVE StatLoop(_, _, _, _)
\* the loop over record.dependencies, in the list's order
StatLoop(fs, ct, deps, k) ==
    IF k > Len(deps) THEN "true"
    ELSE IF fs[deps[k]] = 0 THEN "raise"
    ELSE IF fs[deps[k]] > ct THEN "false"
    ELSE StatLoop(fs, ct, deps, k + 1)

HasCache(ents, fs, host, target, command, deps) ==
    IF fs[target] = 0 THEN "false"
    ELSE IF ents[target] = NoEntry THEN "false"
    ELSE IF ents[target].hostname # host \/ ents[target].command # command
         THEN "false"
    ELSE IF Range(deps) # ents[target].dependencies THEN "false"
    ELSE StatLoop(fs, fs[target], deps, 1)

\* Cache.save: the records replace the entries of their targets
SaveEntries(ents, recs) ==
    [t \in DOMAIN ents |->
        IF \E r \in recs : r.target = t
        THEN LET r == CHOOSE x \in recs : x.target = t
             IN  [hostname |-> HostName, command |-> r.command,
                  dependencies |-> r.dependencies]
        ELSE ents[t]]


(***************************************************************************)
(* The driver: Compiler.compile, one invocation after another.             *)
(***************************************************************************)
Units == Sources \ {MainSource}
NoProc == [st |-> "none", rc |-> -1, reaped |-> FALSE]
Alive(s) == proc[s].st \in {"running", "writing"}
UsedHeaders(g) == UNION {g.local[f] : f \in Sources \cup Headers}

\* the record of compile_record(source) and of _executable_compile_record
ObjRecord(g, s) ==
    [target |-> Target(s), command |-> ObjCommand(s), dependencies |-> Dependencies(g, s)]
ExeRecord(g, s) ==
    [target |-> ExeTarget(s), command |-> ExeCommand(s), dependencies |-> Dependencies(g, s)]

\* cache.has_cache(record) for some order of the record's dependency list
ObjFresh(s) ==
    {HasCache(entries, ctime, HostName, Target(s), ObjCommand(s), d) :
        d \in DependencyLists(graph, s)}
ExeFresh ==
    {HasCache(entries, ctime, HostName, Exe, ExeCommand(MainSource), d) :
        d \in DependencyLists(graph, MainSource)}

\* hist: whether it describes an invocation, the cache file at the start of
\* the run, whether the run before it ended in success, the headers edited
\* since that run ended, the number of cache.save calls of the run, the
\* records that were stale and the sources whose target was partially
\* written when the run started
NoHist == [live |-> FALSE, start |-> [t \in ObjTargets \cup {Exe} |-> NoEntry],
           basis |-> "none", touched |-> {}, saves |-> 0, stale |-> {},
           partial |-> {}]

BuildInit ==
    /\ graph \in Graphs
    /\ ctime = [p \in Paths |-> IF p \in Sources \cup Headers THEN 1 ELSE 0]
    /\ content = [t \in ObjTargets |-> "none"]
    /\ disk = [t \in ObjTargets \cup {Exe} |-> NoEntry]
    /\ entries = [t \in ObjTargets \cup {Exe} |-> NoEntry]
    /\ pc = "idle"
    /\ records = <<>>
    /\ idx = 1
    /\ procs = <<>>
    /\ proc = [s \in Units |-> NoProc]
    /\ link = "none"
    /\ errs = <<>>
    /\ printed = <<>>
    /\ exitCode = -1
    /\ touches = 0
    /\ edited = {}
    /\ hist = NoHist

\* the headers the user may edit
Editable == {"b.h", "d.h"}

\* the user edits a header between two invocations, when the driver and its
\* children are gone (what the ended run left in memory is gone with it)
Touch(h) ==
    /\ pc \in {"idle", "exited"}
    /\ \A s \in Units : ~Alive(s)
    /\ touches < MaxTouches
    /\ touches' = touches + 1
    /\ ctime' = Stamp(ctime, h)
    /\ edited' = edited \cup {h}
    /\ hist' = NoHist
    /\ records' = <<>>
    /\ idx' = 1
    /\ procs' = <<>>
    /\ proc' = [s \in Units |-> NoProc]
    /\ link' = "none"
    /\ errs' = <<>>
    /\ printed' = <<>>
    /\ entries' = disk
    /\ UNCHANGED <<graph, content, disk, pc, exitCode, cq, rq, moreVars>>

\* compile(): cache = Cache(); records = [... for source in source.sources()]
StartRun ==
    /\ pc \in {"idle", "exited"}
    /\ \A s \in Units : ~Alive(s)
    /\ entries' = disk
    /\ records' \in SeqsOf(SourceSources(graph, MainSource))
    /\ idx' = 1
    /\ procs' = <<>>
    /\ proc' = [s \in Units |-> NoProc]
    /\ link' = "none"
    /\ errs' = <<>>
    /\ printed' = <<>>
    /\ exitCode' = -1
    /\ pc' = IF SourceSources(graph, MainSource) = {} THEN "link" ELSE "sched"
    /\ hist' = [live |-> TRUE,
                start |-> disk,
                partial |-> {s \in Units : content[Target(s)] = "partial"},
                basis |-> IF pc = "exited" /\ exitCode = 0 THEN "success" ELSE "none",
                touched |-> edited,
                saves |-> 0,
                stale |-> {s \in SourceSources(graph, MainSource) :
                              "true" \notin {HasCache(disk, ctime, HostName, Target(s),
                                                      ObjCommand(s), d) :
                                                 d \in DependencyLists(graph, s)}}]
    /\ edited' = {}
    /\ UNCHANGED <<graph, ctime, content, disk, touches, cq, rq, moreVars>>

\* where the driver is after the scheduling loop handled records[idx]
AfterRecord(ps) ==
    IF idx < Len(records) THEN "sched" ELSE IF ps = <<>> THEN "link" ELSE "wait"

\* the loop of compile(): the record is fresh, its compile is skipped
SchedSkip ==
    /\ pc = "sched"
    /\ "true" \in ObjFresh(records[idx])
    /\ pc' = AfterRecord(procs)
    /\ idx' = IF idx < Len(records) THEN idx + 1 ELSE 1
    /\ UNCHANGED <<graph, ctime, content, disk, entries, records, procs, proc,
                   link, errs, printed, exitCode, touches, edited, hist, cq, rq, moreVars>>

\* the loop of compile(): procs.append(foreground_execute_handle(record.command))
SchedSpawn ==
    /\ pc = "sched"
    /\ "false" \in ObjFresh(records[idx])
    /\ procs' = Append(procs, records[idx])
    /\ proc' = [proc EXCEPT ![records[idx]] = [st |-> "running", rc |-> -1, reaped |-> FALSE]]
    /\ pc' = AfterRecord(procs')
    /\ idx' = IF idx < Len(records) THEN idx + 1 ELSE 1
    /\ UNCHANGED <<graph, ctime, content, disk, entries, records,
                   link, errs, printed, exitCode, touches, edited, hist, cq, rq, moreVars>>

\* the loop of compile(): os.stat of a dependency that is not on disk raises,
\* nothing catches it and the interpreter exits with status 1
SchedRaise ==
    /\ pc = "sched"
    /\ "raise" \in ObjFresh(records[idx])
    /\ pc' = "exited"
    /\ exitCode' = 1
    /\ UNCHANGED <<graph, ctime, content, disk, entries, records, idx, procs, proc,
                   link, errs, printed, touches, edited, hist, cq, rq, moreVars>>

(***************************************************************************)
(* A child compiler process: it creates its target, then completes it, or  *)
(* exits non-zero before it wrote anything.  What the shell makes of the   *)
(* command string (see SpecRecord) is the environment's choice: the driver *)
(* only sees the exit status and the files.                                *)
(***************************************************************************)
FailCodes == {1}

ProcWrite(s) ==
    /\ proc[s].st = "running"
    /\ proc' = [proc EXCEPT ![s].st = "writing"]
    /\ content' = [content EXCEPT ![Target(s)] = "partial"]
    /\ ctime' = Stamp(ctime, Target(s))
    /\ UNCHANGED <<graph, disk, entries, pc, records, idx, procs, link, errs,
                   printed, exitCode, touches, edited, hist, cq, rq, moreVars>>

ProcOk(s) ==
    /\ proc[s].st = "writing"
    /\ proc' = [proc EXCEPT ![s].st = "exited", ![s].rc = 0]
    /\ content' = [content EXCEPT ![Target(s)] = "complete"]
    /\ ctime' = Stamp(ctime, Target(s))
    /\ UNCHANGED <<graph, disk, entries, pc, records, idx, procs, link, errs,
                   printed, exitCode, touches, edited, hist, cq, rq, moreVars>>

ProcFail(s, rc) ==
    /\ proc[s].st = "running"
    /\ proc' = [proc EXCEPT ![s].st = "exited", ![s].rc = rc]
    /\ UNCHANGED <<graph, ctime, content, disk, entries, pc, records, idx, procs,
                   link, errs, printed, exitCode, touches, edited, hist, cq, rq, moreVars>>


(***************************************************************************)
(* src/base/execute.py: wait_for_handles(procs), one handle per step.      *)
(***************************************************************************)
\* an entry of errs: the exit code, proc.args, and the length of the tuple
\* the code appends (3 in the first branch, 4 while draining)
ErrEntry(s, n) == [rc |-> proc[s].rc, args |-> ObjCommand(s), len |-> n]

\* a driver that links whatever the handles returned
AfterHandleUnchecked(es) == IF idx < Len(procs) THEN "wait" ELSE "link"

\* where the driver is after wait_for_handles' loop handled procs[idx]
AfterHandle(es) ==
    IF idx < Len(procs) THEN "wait" ELSE IF es = <<>> THEN "link" ELSE "report"

\* no error yet: proc.communicate() returns once the child has exited
WaitFirst ==
    /\ pc = "wait"
    /\ errs = <<>>
    /\ proc[procs[idx]].st = "exited"
    /\ proc' = [proc EXCEPT ![procs[idx]].reaped = TRUE]
    /\ errs' = IF proc[procs[idx]].rc # 0
               THEN Append(errs, ErrEntry(procs[idx], 3)) ELSE errs
    /\ pc' = AfterHandle(errs')
    /\ idx' = IF idx < Len(procs) THEN idx + 1 ELSE 1
    /\ UNCHANGED <<graph, ctime, content, disk, entries, records, procs,
                   link, printed, exitCode, touches, edited, hist, cq, rq, moreVars>>

\* an error was seen: proc.poll() is None, proc.kill() and nothing more
DrainKill ==
    /\ pc = "wait"
    /\ errs # <<>>
    /\ Alive(procs[idx])
    /\ proc' = [proc EXCEPT ![procs[idx]].st = "killed"]
    /\ pc' = AfterHandle(errs)
    /\ idx' = IF idx < Len(procs) THEN idx + 1 ELSE 1
    /\ UNCHANGED <<graph, ctime, content, disk, entries, records, procs,
                   link, errs, printed, exitCode, touches, edited, hist, cq, rq, moreVars>>

\* an error was seen: proc.poll() gives the exit code of a child that ended
DrainExited ==
    /\ pc = "wait"
    /\ errs # <<>>
    /\ proc[procs[idx]].st = "exited"
    /\ proc' = [proc EXCEPT ![procs[idx]].reaped = TRUE]
    /\ errs' = IF proc[procs[idx]].rc # 0
               THEN Append(errs, ErrEntry(procs[idx], 4)) ELSE errs
    /\ pc' = AfterHandle(errs')
    /\ idx' = IF idx < Len(procs) THEN idx + 1 ELSE 1
    /\ UNCHANGED <<graph, ctime, content, disk, entries, records, procs,
                   link, printed, exitCode, touches, edited, hist, cq, rq, moreVars>>

\* the entries of errs that `for errno, command, stderr in errs` unpacks
\* before one of another length raises ValueError
Unpacked(es) ==
    IF \E k \in 1..Len(es) : es[k].len # 3
    THEN SubSeq(es, 1, (CHOOSE k \in 1..Len(es) :
                           es[k].len # 3 /\ \A m \in 1..(k - 1) : es[m].len = 3) - 1)
    ELSE es

\* utils.__DEFAULT_ERRNO
DEFAULT_ERRNO == -1
\* the exit status a parent sees: the low eight bits of the code
ExitStatus(n) == n % 256
\* utils.sys_exit(msg) without err: exit(__DEFAULT_ERRNO)
DefaultExit == ExitStatus(DEFAULT_ERRNO)
\* an exception nothing catches ends the interpreter with status 1
TracebackExit == 1

\* the report loop and sys_exit('compilation stopped')
Report ==
    /\ pc = "report"
    /\ printed' = Unpacked(errs)
    /\ exitCode' = IF Unpacked(errs) = errs THEN DefaultExit ELSE TracebackExit
    /\ pc' = "exited"
    /\ UNCHANGED <<graph, ctime, content, disk, entries, records, idx, procs, proc,
                   link, errs, touches, edited, hist, cq, rq, moreVars>>

(***************************************************************************)
(* compile(): the link record, cache.save and chmod.                       *)
(***************************************************************************)
\* cache.has_cache(exe): skip, or foreground_execute(exe.command) spawns
Link ==
    /\ pc = "link"
    /\ \E r \in ExeFresh :
        /\ pc' = CASE r = "true" -> "save" [] r = "false" -> "linking" [] OTHER -> "exited"
        /\ link' = IF r = "false" THEN "running" ELSE link
        /\ exitCode' = IF r = "raise" THEN TracebackExit ELSE exitCode
    /\ UNCHANGED <<graph, ctime, content, disk, entries, records, idx, procs, proc,
                   errs, printed, touches, edited, hist, cq, rq, moreVars>>

\* a driver that saves the cache whatever the link returned
AfterLinkUnchecked(rc) == "save"

\* foreground_execute: proc.communicate(); if proc.returncode: sys_exit(None, rc)
AfterLink(rc) == IF rc # 0 THEN "exited" ELSE "save"

LinkOk ==
    /\ pc = "linking"
    /\ link' = "ok"
    /\ ctime' = Stamp(ctime, Exe)
    /\ pc' = AfterLink(0)
    /\ UNCHANGED <<graph, content, disk, entries, records, idx, procs, proc,
                   errs, printed, exitCode, touches, edited, hist, cq, rq, moreVars>>

LinkFail(rc) ==
    /\ pc = "linking"
    /\ link' = "failed"
    /\ pc' = AfterLink(rc)
    /\ exitCode' = IF AfterLink(rc) = "exited" THEN rc ELSE exitCode
    /\ UNCHANGED <<graph, ctime, content, disk, entries, records, idx, procs, proc,
                   errs, printed, touches, edited, hist, cq, rq, moreVars>>

\* records.append(exe); cache.save(records); os.chmod(exe.target, ...); return
Save ==
    /\ pc = "save"
    /\ entries' = SaveEntries(entries, {ObjRecord(graph, records[k]) : k \in 1..Len(records)}
                                          \cup {ExeRecord(graph, MainSource)})
    /\ disk' = entries'
    /\ ctime' = Stamp(ctime, Exe)
    /\ pc' = "exited"
    /\ exitCode' = 0
    /\ hist' = [hist EXCEPT !.saves = @ + 1]
    /\ UNCHANGED <<graph, content, records, idx, procs, proc, link, errs, printed,
                   touches, edited, cq, rq, moreVars>>

BuildNext ==
    \/ StartRun
    \/ \E h \in Editable \cap UsedHeaders(graph) : Touch(h)
    \/ SchedSkip
    \/ SchedSpawn
    \/ SchedRaise
    \/ \E s \in Units : ProcWrite(s)
    \/ \E s \in Units : ProcOk(s)
    \/ \E s \in Units, rc \in FailCodes : ProcFail(s, rc)
    \/ WaitFirst
    \/ DrainKill
    \/ DrainExited
    \/ Report
    \/ Link
    \/ LinkOk
    \/ \E rc \in FailCodes : LinkFail(rc)
    \/ Save

Init ==
    /\ BuildInit
    /\ cq = <<>>
    /\ rq = <<>>
    /\ moreIdle

Next == BuildNext

Spec == Init /\ [][Next]_vars


(***************************************************************************)
(* Properties of the driver, checked under Spec.                           *)
(***************************************************************************)
Failed(s) == proc[s].st = "exited" /\ proc[s].rc # 0
Batch == Range(procs)
\* the scheduling loop of the run is over
Scheduled == hist.live /\ (pc \in {"wait", "report", "link", "linking", "save"}
                           \/ (pc = "exited" /\ exitCode = 0))

\* C2: after a successful build, a second invocation with no file changed in
\* between finds every object record and the link record fresh: it spawns
\* no compile and no link, and ends in success.
C2_NoOpSecondRunSpawnsNothing ==
    (hist.live /\ hist.basis = "success" /\ hist.touched = {}) =>
        /\ procs = <<>>
        /\ link = "none"
        /\ (pc = "exited" => exitCode = 0)

\* C3: after a successful build and the edit of exactly one header, the next
\* run spawns a compile for exactly the object records whose dependency list
\* contains that header, and then relinks the executable.
C3_TouchedHeaderRebuildsExactly ==
    (Scheduled /\ hist.basis = "success" /\ Cardinality(hist.touched) = 1) =>
        /\ Batch = {s \in Range(records) :
                       hist.touched \subseteq Dependencies(graph, s)}
        /\ (pc = "save" => link = "ok")

\* C4: the link process is spawned only after wait_for_handles returned
\* successfully: whenever the link has been spawned, no object compile of the
\* run is running and every one that was spawned has exited with status 0
\* and has been waited for.
C4_LinkOnlyAfterWaitAll ==
    link # "none" =>
        /\ errs = <<>>
        /\ \A s \in Units : proc[s].st \in {"none", "exited"}
        /\ \A s \in Batch : proc[s].st = "exited" /\ proc[s].rc = 0 /\ proc[s].reaped

C4_Witness == link = "running" /\ Len(procs) >= 2

\* C5: a run writes the cache at most once, and only after every spawned
\* compile and the link have exited with status 0; while the run has not
\* written it, and so whenever a compile or the link failed, the cache file
\* is as it was when the run started.
C5_CacheWrittenOnceAfterSuccess ==
    /\ hist.saves <= 1
    /\ (hist.saves = 1 =>
            /\ \A s \in Batch : proc[s].st = "exited" /\ proc[s].rc = 0
            /\ link \in {"none", "ok"})
    /\ ((hist.live /\ hist.saves = 0) => disk = hist.start)
    /\ ((hist.live /\ ((\E s \in Batch : Failed(s) \/ proc[s].st = "killed")
                       \/ link = "failed"))
            => hist.saves = 0 /\ disk = hist.start)

\* a run failed although a sibling compiled successfully, with a cache file
\* that an earlier run had written
C5_Witness ==
    /\ pc = "exited"
    /\ exitCode # 0
    /\ \E s \in Batch : Failed(s)
    /\ \E s \in Batch : proc[s].st = "exited" /\ proc[s].rc = 0
    /\ disk[Exe] # NoEntry
    /\ disk = hist.start

\* C6: a compile failure kills the outstanding siblings, earlier or later in
\* the handle list: once a compile of the batch has exited non-zero, the
\* driver is never blocked in communicate() on a sibling that is still
\* running, which it would then let run to completion.
C6_FailureKillsRunningSiblings ==
    \A s \in Batch :
        (pc = "wait" /\ Alive(s) /\ \E t \in Batch : Failed(t)) =>
            ~(errs = <<>> /\ procs[idx] = s)

\* C7: when the driver terminates after wait_for_handles saw a non-zero exit,
\* every compile of the batch has ended and has been waited for (reaped), and
\* no further process (the link) was started.
C7_SiblingsKilledAndReaped ==
    (pc = "exited" /\ errs # <<>>) =>
        /\ \A s \in Batch : proc[s].st \in {"exited", "killed"} /\ proc[s].reaped
        /\ link = "none"

\* C8: when wait_for_handles saw non-zero exits, every observed failure is
\* reported and the driver terminates with a failing child's exit code.
C8_FailuresReportedExitCode ==
    (pc = "exited" /\ errs # <<>>) =>
        /\ printed = errs
        /\ \A s \in Batch : Failed(s) /\ proc[s].reaped =>
               \E k \in 1..Len(printed) : printed[k].args = ObjCommand(s)
        /\ exitCode \in {errs[k].rc : k \in 1..Len(errs)}

\* C9: a target left partially written by a compile that was killed in a
\* failed run is stale in the next run: its record is spawned again.
C9_PartialTargetRecompiled ==
    \A s \in Units :
        (Scheduled /\ s \in Range(records) /\ s \in hist.partial) => s \in Batch


(***************************************************************************)
(* SpecCache: Cache.has_cache on drawn inputs.  cq holds the file states   *)
(* of one target and two paths, the cache entry of the target (or NoEntry  *)
(* when the cache has none), the record's dependency list, and the answer. *)
(***************************************************************************)
MaxStamp == 2
CacheTarget == "build/t.o"
CacheDeps == {"t.h", "t.cpp"}
CacheCommand == <<"compile", "t.cpp">>
OtherCommand == <<"compile", "-OptO3", "t.cpp">>

CacheEntries ==
    {NoEntry} \cup [hostname : {HostName, "elsewhere"},
                    command : {CacheCommand, OtherCommand},
                    dependencies : SUBSET CacheDeps]

CacheInit ==
    cq \in [fs : [{CacheTarget} \cup CacheDeps -> 0..MaxStamp],
            entry : CacheEntries,
            deps : UNION {[1..n -> CacheDeps] : n \in 1..2},
            ans : {"unasked"}]

\* cache.has_cache(record) for the drawn record
Ask ==
    /\ cq.ans = "unasked"
    /\ cq' = [cq EXCEPT !.ans = HasCache([t \in {CacheTarget} |-> cq.entry], cq.fs,
                                         HostName, CacheTarget, CacheCommand, cq.deps)]
    /\ UNCHANGED <<buildVars, rq, moreVars>>

BuildFrozen == BuildInit /\ graph.name = "siblings"

InitCache == BuildFrozen /\ CacheInit /\ rq = <<>> /\ moreIdle
SpecCache == InitCache /\ [][Ask]_vars

\* the six conditions of the freshness check, a dependency that is not on
\* disk failing the sixth
SixConditions ==
    /\ cq.fs[CacheTarget] # 0
    /\ cq.entry # NoEntry
    /\ cq.entry.hostname = HostName
    /\ cq.entry.command = CacheCommand
    /\ cq.entry.dependencies = Range(cq.deps)
    /\ \A d \in Range(cq.deps) : cq.fs[d] # 0 /\ cq.fs[CacheTarget] >= cq.fs[d]

\* C1: has_cache returns true if and only if the six conditions hold, and
\* false in every other cache and file-system state, also when a dependency
\* is not on disk.
C1_HasFreshIffSixConditions ==
    cq.ans # "unasked" => cq.ans = (IF SixConditions THEN "true" ELSE "false")

(***************************************************************************)
(* SpecRecord: the command of an object record.  A string is a sequence of *)
(* characters; rq holds the drawn inputs of compile_record, the args the   *)
(* record was built with, and the command as it is spawned, saved in the   *)
(* cache and exported to compile_commands.json.                            *)
(***************************************************************************)
\* the strings of the command line, character by character
IsystemFlag == <<"-", "i", "s", "y", "s", "t", "e", "m", " ">>
IFlag == <<"-", "I">>
StdFlag == <<"-", "s", "t", "d", "=">>
OFlag == <<"-", "o">>
CFlag == <<"-", "c">>
GppPath == <<"/", "u", "s", "r", "/", "b", "i", "n", "/", "g", "+", "+">>
ClangPath == <<"c", "l", "a", "n", "g", "+", "+">>
Cpp11 == <<"c", "+", "+", "1", "1">>
Cpp23 == <<"c", "+", "+", "2", "3">>
OptO3 == <<"-", "O", "3">>
OptG == <<"-", "g">>
OptO0 == <<"-", "O", "0">>
OptFramePointer == <<"-", "f", "n", "o", "-", "o", "m", "i", "t", "-", "f", "r", "a", "m", "e", "-", "p", "o", "i", "n", "t", "e", "r">>
OptWall == <<"-", "W", "a", "l", "l">>
FmtInclude == <<"/", "o", "p", "t", "/", "f", "m", "t", "/", "i", "n", "c", "l", "u", "d", "e">>
LibDir == <<"l", "i", "b">>
ObjA == <<"b", "u", "i", "l", "d", "/", "a", ".", "o">>
SrcA == <<"a", ".", "c", "p", "p">>

RECURSIVE Join(_, _)
\* sep.join(items)
Join(sep, items) ==
    IF items = <<>> THEN <<>>
    ELSE IF Len(items) = 1 THEN items[1]
    ELSE Join(sep, SubSeq(items, 1, Len(items) \div 2)) \o sep
         \o Join(sep, SubSeq(items, Len(items) \div 2 + 1, Len(items)))

\* what iterating a str yields: its characters, each a str
Chars(s) == [k \in 1..Len(s) |-> <<s[k]>>]

NonEmpty(s) == s # <<>>
\* compiler._pretty_join
PrettyJoin(strings) ==
    IF SelectSeq(strings, NonEmpty) = <<>> THEN <<>>
    ELSE Join(<<" ">>, SelectSeq(strings, NonEmpty))

\* Compiler._options_str: config.options, then sorted(source.options())
OptionsStr(in) == PrettyJoin(in.options \o in.sopts)
\* Compiler._library_includes_str
LibraryIncludesStr(in) ==
    PrettyJoin([k \in 1..Len(in.isystem) |-> IsystemFlag \o in.isystem[k]])
\* Compiler._source_includes_str
SourceIncludesStr(in) ==
    PrettyJoin([k \in 1..Len(in.includes) |-> IFlag \o in.includes[k]])

\* Compiler.compile_record: command = _pretty_join(...)
CompileRecordCommand(in) ==
    PrettyJoin(<<in.path, StdFlag \o in.std, OptionsStr(in), LibraryIncludesStr(in),
                 SourceIncludesStr(in), OFlag, in.target, CFlag, in.source>>)

\* Record.command: ' '.join(self.args), args being the str compile_record
\* passed as the record's second field
RecordCommand(args) == Join(<<" ">>, Chars(args))

Unset == <<"?">>

RecordInputs ==
    [path : {GppPath, ClangPath},
     std : {Cpp11, Cpp23},
     options : {<<OptO3>>, <<OptG, OptO0, OptFramePointer>>},
     sopts : {<<>>, <<OptWall>>},
     isystem : {<<>>, <<FmtInclude>>},
     includes : {<<>>, <<LibDir>>},
     target : {ObjA},
     source : {SrcA}]

RecordInit ==
    rq \in [in : RecordInputs, args : {Unset}, spawned : {Unset},
            cached : {Unset}, exported : {Unset}]

\* compile_record: Record(source.target, command, dependencies)
MakeRecord ==
    /\ rq.args = Unset
    /\ rq' = [rq EXCEPT !.args = CompileRecordCommand(rq.in)]
    /\ UNCHANGED <<buildVars, cq, moreVars>>

\* compile(): foreground_execute_handle(record.command)
SpawnRecord ==
    /\ rq.args # Unset
    /\ rq.spawned = Unset
    /\ rq' = [rq EXCEPT !.spawned = RecordCommand(rq.args)]
    /\ UNCHANGED <<buildVars, cq, moreVars>>

\* Cache.save: 'command': record.command
SaveRecord ==
    /\ rq.spawned # Unset
    /\ rq.cached = Unset
    /\ rq' = [rq EXCEPT !.cached = RecordCommand(rq.args)]
    /\ UNCHANGED <<buildVars, cq, moreVars>>

\* compile_commands: 'command': self.compile_record(source, config).command
ExportRecord ==
    /\ rq.exported = Unset
    /\ rq' = [rq EXCEPT !.exported = RecordCommand(CompileRecordCommand(rq.in))]
    /\ UNCHANGED <<buildVars, cq, moreVars>>

InitRecord == BuildFrozen /\ cq = <<>> /\ RecordInit /\ moreIdle
NextRecord == MakeRecord \/ SpawnRecord \/ SaveRecord \/ ExportRecord
SpecRecord == InitRecord /\ [][NextRecord]_vars

IsPrefix(a, b) == Len(a) <= Len(b) /\ SubSeq(b, 1, Len(a)) = a
IsSuffix(a, b) == Len(a) <= Len(b) /\ SubSeq(b, Len(b) - Len(a) + 1, Len(b)) = a

\* the command line starts with `<path> -std=<std> ` and ends with
\* ` -o <target> -c <source>`
IsCommandLine(in, c) ==
    /\ IsPrefix(in.path \o <<" ">> \o StdFlag \o in.std \o <<" ">>, c)
    /\ IsSuffix(<<" ">> \o OFlag \o <<" ">> \o in.target \o <<" ">> \o CFlag
                \o <<" ">> \o in.source, c)

\* C10: the command that is spawned, stored in the cache and written to the
\* compilation database is the object-compile command line: the compiler
\* path, -std=<std>, the options and include flags separated by single
\* spaces, ending with -o <target> -c <source_path>.
C10_CommandIsJoinedArgv ==
    \A c \in {rq.spawned, rq.cached, rq.exported} \ {Unset} : IsCommandLine(rq.in, c)

(***************************************************************************)
(* SpecInclude: the resolution of one include directive of a file of the   *)
(* module "M" (src/base/module.py).  Paths and include strings are         *)
(* sequences of characters.  iq holds the header paths of the modules, the *)
(* links of M, M's libraries and the global ones, the include, whether it  *)
(* is quoted or angled, and the IncludeInfo the lookup returned.           *)
(***************************************************************************)
\* header paths as Module._gather_files yields them: those of the module at
\* the root carry no prefix, those of a linked module start with its path
\* ("l" and "k" stand for the modules' directories under build/.links)
PathAH == <<"a", ".", "h">>
PathSAH == <<"s", "/", "a", ".", "h">>
PathBH == <<"b", ".", "h">>
PathLAH == <<"l", "/", "a", ".", "h">>
PathLSAH == <<"l", "/", "s", "/", "a", ".", "h">>
PathKAH == <<"k", "/", "a", ".", "h">>
\* include strings
InclDotAH == <<".", "/", "a", ".", "h">>
InclXH == <<"x", ".", "h">>

Mods == {"M", "L", "K"}
ModPaths ==
    [M : SUBSET {PathAH, PathSAH, PathBH},
     L : SUBSET {PathLAH, PathLSAH},
     K : SUBSET {PathKAH}]
Includes == {PathAH, PathSAH, InclDotAH, InclXH}

\* a library, its pattern given by the includes it matches
Libraries ==
    {[name |-> "fmt", matches |-> {PathAH, InclXH}],
     [name |-> "boost", matches |-> {PathAH, PathSAH}]}
NoInfo == [kind |-> "none"]

\* str.endswith
EndsWith(s, suffix) ==
    Len(suffix) <= Len(s) /\ SubSeq(s, Len(s) - Len(suffix) + 1, Len(s)) = suffix

\* a directory that is the whole path
WholeDir(path, suffix) == path

\* path[:-len(suffix)]
SuffixDir(path, suffix) == SubSeq(path, 1, Len(path) - Len(suffix))

RECURSIVE SelfScan(_, _, _, _)
\* the loop of _find_self_include over the header paths in the order the set
\* yields them: the last path that matches stays in info
SelfScan(order, include, k, info) ==
    IF k > Len(order) THEN info
    ELSE IF order[k] = include
         THEN SelfScan(order, include, k + 1, <<<<".">>, order[k]>>)
    ELSE IF EndsWith(order[k], <<"/">> \o include)
         THEN SelfScan(order, include, k + 1,
                       <<SuffixDir(order[k], <<"/">> \o include), order[k]>>)
    ELSE SelfScan(order, include, k + 1, info)

\* Module._find_self_include of module m: what it may return, over the
\* orders in which the set of header paths may be iterated
FindSelfInclude(q, m, include) ==
    {IF SelfScan(o, include, 1, <<>>) = <<>> THEN NoInfo
     ELSE [kind |-> "header", dir |-> SelfScan(o, include, 1, <<>>)[1],
           path |-> SelfScan(o, include, 1, <<>>)[2], owner |-> m] :
        o \in SeqsOf(q.paths[m])}

RECURSIVE FirstLibrary(_, _, _)
\* the inner loop of _find_library_include over one list
FirstLibrary(libs, include, k) ==
    IF k > Len(libs) THEN NoInfo
    ELSE IF include \in libs[k].matches
         THEN [kind |-> "library", name |-> libs[k].name]
    ELSE FirstLibrary(libs, include, k + 1)

\* Module._find_library_include: the module's libraries, then the global ones
FindLibraryInclude(q, include) ==
    IF FirstLibrary(q.libs, include, 1) # NoInfo
    THEN FirstLibrary(q.libs, include, 1)
    ELSE FirstLibrary(q.glibs, include, 1)

RECURSIVE LinkScan(_, _, _)
\* Module._find_link_include: the first linked module that has a match
LinkScan(q, include, k) ==
    IF k > Len(q.links) THEN {NoInfo}
    ELSE IF FindSelfInclude(q, q.links[k], include) # {NoInfo}
         THEN FindSelfInclude(q, q.links[k], include)
    ELSE LinkScan(q, include, k + 1)

FindLinkInclude(q, include) == LinkScan(q, include, 1)

\* Module._find_hinclude
FindHInclude(q, include) ==
    IF FindLinkInclude(q, include) = {NoInfo}
    THEN {FindLibraryInclude(q, include)}
    ELSE FindLinkInclude(q, include)

\* a quoted lookup that skips the module's own headers
FindQIncludeNoSelf(q, include) == FindHInclude(q, include)

\* Module._find_qinclude
FindQInclude(q, include) ==
    IF FindSelfInclude(q, "M", include) # {NoInfo}
    THEN FindSelfInclude(q, "M", include)
    ELSE FindHInclude(q, include)

IncludeInit ==
    iq \in [paths : ModPaths,
            links : {<<>>, <<"L">>, <<"L", "K">>, <<"K", "L">>, <<"M">>, <<"M", "L">>},
            libs : {<<>>} \cup {<<l>> : l \in Libraries},
            glibs : {<<>>, <<CHOOSE l \in Libraries : l.name = "boost">>},
            include : Includes,
            quoted : BOOLEAN,
            res : {<<>>}]

\* _analyse_file: one directive of the file is looked up, by _find_qinclude
\* when it is quoted and by _find_hinclude when it is angled
AnalyseInclude ==
    /\ iq.res = <<>>
    /\ \E r \in (IF iq.quoted THEN FindQInclude(iq, iq.include)
                 ELSE FindHInclude(iq, iq.include)) :
           iq' = [iq EXCEPT !.res = r]
    /\ UNCHANGED <<buildVars, cq, rq, mq, lq, vq, gq, aq>>

InitInclude == BuildFrozen /\ cq = <<>> /\ rq = <<>> /\ IncludeInit
                 /\ mq = <<>> /\ lq = <<>> /\ vq = <<>> /\ gq = <<>> /\ aq = <<>>
SpecInclude == InitInclude /\ [][AnalyseInclude]_vars

\* the headers of module m an include names: the path itself, or a path
\* that ends with "/" and the include
Matching(m) ==
    {p \in iq.paths[m] : p = iq.include \/ EndsWith(p, <<"/">> \o iq.include)}

LinkHits == {k \in 1..Len(iq.links) : Matching(iq.links[k]) # {}}
FirstLinkHit == CHOOSE k \in LinkHits : \A j \in LinkHits : k <= j
LibHits(libs) == {k \in 1..Len(libs) : iq.include \in libs[k].matches}
FirstLibHit(libs) == CHOOSE k \in LibHits(libs) : \A j \in LibHits(libs) : k <= j

IsHeaderOf(r, m) == r.kind = "header" /\ r.owner = m /\ r.path \in Matching(m)
IsLibrary(r, libs) == r.kind = "library" /\ r.name = libs[FirstLibHit(libs)].name

\* the stage precedence: self (quoted only), links in order, the module's
\* libraries, the global libraries
StagePrecedence ==
    iq.res # <<>> =>
        IF iq.quoted /\ Matching("M") # {} THEN IsHeaderOf(iq.res, "M")
        ELSE IF LinkHits # {} THEN IsHeaderOf(iq.res, iq.links[FirstLinkHit])
        ELSE IF LibHits(iq.libs) # {} THEN IsLibrary(iq.res, iq.libs)
        ELSE IF LibHits(iq.glibs) # {} THEN IsLibrary(iq.res, iq.glibs)
        ELSE iq.res = NoInfo

BindsToSelf == iq.res # <<>> /\ iq.res.kind = "header" /\ iq.res.owner = "M"

\* C11 as stated: the stage precedence holds and an angled include never
\* binds to a header of the including module.
C11_AngledNeverBindsSelf ==
    /\ StagePrecedence
    /\ (iq.res # <<>> /\ ~iq.quoted) => ~BindsToSelf

\* C11: a quoted include is resolved by the module's own headers, then by
\* its linked modules in order, then by its libraries, then by the global
\* ones; an angled include skips the first stage, and binds to a header of
\* the including module only when the module is among its own links.
C11_StagePrecedence ==
    /\ StagePrecedence
    /\ (iq.res # <<>> /\ ~iq.quoted /\ "M" \notin Range(iq.links)) => ~BindsToSelf

\* a quoted include that a self header and a library both match was bound
\* to the self header
C11_Witness ==
    /\ iq.res # <<>>
    /\ iq.quoted
    /\ BindsToSelf
    /\ LibHits(iq.libs) # {}
    /\ LinkHits # {}

RECURSIVE SplitPath(_)
\* the components of a path
SplitPath(s) ==
    IF \A k \in DOMAIN s : s[k] # "/" THEN <<s>>
    ELSE LET k == CHOOSE i \in DOMAIN s : s[i] = "/" /\ \A j \in 1..(i - 1) : s[j] # "/"
         IN <<SubSeq(s, 1, k - 1)>> \o SplitPath(SubSeq(s, k + 1, Len(s)))

RECURSIVE NormComponents(_, _)
\* os.path.normpath on the components of a relative path
NormComponents(comps, acc) ==
    IF comps = <<>> THEN acc
    ELSE IF Head(comps) \in {<<>>, <<".">>} THEN NormComponents(Tail(comps), acc)
    ELSE IF Head(comps) = <<".", ".">> /\ acc # <<>> /\ acc[Len(acc)] # <<".", ".">>
         THEN NormComponents(Tail(comps), SubSeq(acc, 1, Len(acc) - 1))
    ELSE NormComponents(Tail(comps), Append(acc, Head(comps)))

Normpath(s) ==
    IF NormComponents(SplitPath(s), <<>>) = <<>> THEN <<".">>
    ELSE Join(<<"/">>, NormComponents(SplitPath(s), <<>>))

\* os.path.join of a directory and a relative path
PathJoin(dir, rel) == IF dir = <<>> THEN rel ELSE dir \o <<"/">> \o rel

\* C13: for the include edge (dir, H) recorded on a file, dir joined with
\* the include string and normalised is H.path, and dir is "." when the
\* include string is the header path itself.
C13_EdgeDirJoinsToPath ==
    (iq.res # <<>> /\ iq.res.kind = "header") =>
        /\ Normpath(PathJoin(iq.res.dir, iq.include)) = iq.res.path
        /\ (iq.include = iq.res.path => iq.res.dir = <<".">>)

\* an edge whose directory has two components was recorded
C13_Witness ==
    /\ iq.res # <<>>
    /\ iq.res.kind = "header"
    /\ iq.res.path = PathLSAH
    /\ iq.res.dir = <<"l", "/", "s">>

(***************************************************************************)
(* SpecModule: Module.analyse_files on the root module "MAIN", which links *)
(* the module "LIB" (src/base/module.py).  The include edges of a file are *)
(* those _analyse_file recorded (their lookup is SpecInclude's).  mq holds *)
(* the project, the lookup tables of both modules, every header's          *)
(* companion and the number of attach_source calls made on it.             *)
(***************************************************************************)
MainHeaders == {"a.h", "u.h"}
MainSources == {"main.cpp", "a.cpp", "s/a.cpp"}
LibHeaders == {"l/a.h", "l/b.h", "l/d.h"}
LibSources == {"l/a.cpp", "l/b.cpp"}
AllHeaders == MainHeaders \cup LibHeaders
AllSources == MainSources \cup LibSources

\* the module whose _gather_files found the path
Owner(f) == IF f \in MainHeaders \cup MainSources THEN "MAIN" ELSE "LIB"

\* file.get_file_name: the base name without its extension
FileName(f) ==
    CASE f \in {"a.h", "a.cpp", "s/a.cpp", "l/a.h", "l/a.cpp"} -> "a"
      [] f \in {"l/b.h", "l/b.cpp"} -> "b"
      [] f = "l/d.h" -> "d"
      [] f = "u.h" -> "u"
      [] f = "main.cpp" -> "main"

\* the projects: the header and source paths of the two modules and the
\* headers each file's includes resolve to
Projects ==
    {[hdrs |-> [MAIN |-> MainHeaders, LIB |-> LibHeaders],
      srcs |-> [MAIN |-> {"main.cpp"} \cup ms, LIB |-> ls],
      edges |-> [f \in AllHeaders \cup AllSources |->
                    CASE f = "main.cpp" -> em
                      [] f = "a.cpp" -> ea
                      [] f = "s/a.cpp" -> es
                      [] f = "l/a.cpp" -> ela
                      [] f = "l/b.cpp" -> elb
                      [] f = "l/b.h" -> ebh
                      [] OTHER -> {}]] :
        ms \in SUBSET {"a.cpp", "s/a.cpp"},
        ls \in SUBSET LibSources,
        em \in {{"a.h", "u.h"}, {"a.h", "l/b.h"}, {"l/a.h"}},
        ea \in {{}, {"a.h"}, {"l/a.h"}},
        es \in {{}, {"a.h"}},
        ela \in {{"l/a.h"}, {"l/a.h", "l/d.h"}},
        elb \in {{"l/b.h"}, {"l/b.h", "u.h"}},
        ebh \in {{}, {"l/a.h"}}}

RECURSIVE Closure(_, _)
\* the headers _analyse_file reaches from a file: every include it resolves
\* to a header analyses that header
Closure(w, f) == UNION {{h} \cup Closure(w, h) : h \in w.edges[f]}

\* the header table of module m after the files F were analysed
Analysed(w, hm, m, F) ==
    hm[m] \cup {h \in (F \cap AllHeaders) \cup UNION {Closure(w, f) : f \in F} :
                  Owner(h) = m}

ModuleInit ==
    mq \in [w : Projects,
            hmap : {[MAIN |-> {}, LIB |-> {}]},
            smap : {[MAIN |-> {}, LIB |-> {}]},
            source : {[h \in AllHeaders |-> NoSource]},
            attaches : {[h \in AllHeaders |-> 0]},
            pc : {"new"},
            changed : {FALSE},
            calls : {0},
            snap : {<<>>}]

MaxCalls == 2

\* a header that every analysis creates anew, without a companion
FreshHeaderSource(hm, src, h) == NoSource

\* _analyse_header: a path already in the table returns the Header it holds,
\* with its companion; a new Header has none
AnalyseHeaderSource(hm, src, h) ==
    IF h \in hm[Owner(h)] THEN src[h] ELSE NoSource

\* the header tables after module m analysed the files F
AnalysedTables(w, hm, F) ==
    [m \in {"MAIN", "LIB"} |-> Analysed(w, hm, m, F)]

\* analyse_files on MAIN, up to the call of _complete_header: every header
\* path and every source path of the module is analysed
AnalyseFiles ==
    /\ mq.pc \in {"new", "steady"}
    /\ mq.calls < MaxCalls
    /\ LET F == mq.w.hdrs["MAIN"] \cup mq.w.srcs["MAIN"]
           hm == AnalysedTables(mq.w, mq.hmap, F)
       IN mq' = [mq EXCEPT
                   !.hmap = hm,
                   !.smap = [mq.smap EXCEPT !["MAIN"] = @ \cup mq.w.srcs["MAIN"]],
                   !.source = [h \in AllHeaders |->
                                  IF h \in hm[Owner(h)]
                                  THEN AnalyseHeaderSource(mq.hmap, mq.source, h)
                                  ELSE mq.source[h]],
                   !.pc = "MAIN",
                   !.changed = FALSE]
    /\ UNCHANGED <<buildVars, cq, rq, iq, lq, vq, gq, aq>>

\* the first and the last element of a listing that is in S
FirstIn(o, S) == o[CHOOSE k \in 1..Len(o) : o[k] \in S /\ \A j \in 1..(k - 1) : o[j] \notin S]
LastIn(o, S) == o[CHOOSE k \in 1..Len(o) : o[k] \in S /\ \A j \in (k + 1)..Len(o) : o[j] \notin S]

\* a header any module's source may pair with
AnyModule(hm, m, h) == TRUE

\* `hdr.path not in self._headers_mapping`: the header is held by module m
InModule(hm, m, h) == h \in hm[m]

\* `hdr.source is not None: continue`
Unpaired(src, h) == src[h] = NoSource

\* the sources of the table of m that include h directly and have its name
Includers(q, m, h) ==
    {s \in q.smap[m] : h \in q.w.edges[s] /\ FileName(s) = FileName(h)}

\* the first loop of _complete_header_once, the sources taken in order o1:
\* the companions after it
Loop1(q, m, o1) ==
    [h \in AllHeaders |->
        IF InModule(q.hmap, m, h) /\ Unpaired(q.source, h) /\ Includers(q, m, h) # {}
        THEN FirstIn(o1, Includers(q, m, h))
        ELSE q.source[h]]

\* the source paths of module m that have the name of h
Twins(w, m, h) == {s \in w.srcs[m] : FileName(s) = FileName(h)}

\* the headers the second loop attaches a source to
Pending(q, m, s1) == {h \in q.hmap[m] : Unpaired(s1, h) /\ Twins(q.w, m, h) # {}}

\* the second loop, the source paths taken in order o2: every source path
\* with the header's name is analysed and attached, the last one stays
Loop2(q, m, s1, o2) ==
    [h \in AllHeaders |->
        IF h \in Pending(q, m, s1) THEN LastIn(o2, Twins(q.w, m, h)) ELSE s1[h]]

\* the sources the second loop analyses
Loop2Sources(q, m, s1) == UNION {Twins(q.w, m, h) : h \in Pending(q, m, s1)}

\* the number of attach_source calls of both loops on h
Attached(q, m, s1, h) ==
    (IF s1[h] # q.source[h] THEN 1 ELSE 0)
    + (IF h \in Pending(q, m, s1) THEN Cardinality(Twins(q.w, m, h)) ELSE 0)

\* _analyse_source in the second loop added a header to the table the loop
\* iterates: the dict iterator raises RuntimeError
Grows(q, m, s1) ==
    Analysed(q.w, q.hmap, m, Loop2Sources(q, m, s1) \ q.smap[m]) # q.hmap[m]

\* where _complete_header is after a call of _complete_header_once on m
\* returned ch: the call is repeated while it changes something, then the
\* epoch goes on to the links of the module (MAIN links LIB; LIB links
\* nothing, or MAIN, which it skips as COMPLETING), and _complete_header
\* repeats the epoch while it changed something
AfterOnce(q, m, ch) ==
    IF ch THEN m
    ELSE IF m = "MAIN" THEN "LIB"
    ELSE IF q.changed THEN "MAIN"
    ELSE "steady"

\* one call of _complete_header_once on the module the epoch is at
CompleteHeaderOnce ==
    /\ mq.pc \in {"MAIN", "LIB"}
    /\ \E o1 \in SeqsOf(mq.smap[mq.pc]), o2 \in SeqsOf(mq.w.srcs[mq.pc]) :
        LET m == mq.pc
            s1 == Loop1(mq, m, o1)
            s2 == Loop2(mq, m, s1, o2)
            ch == s1 # mq.source \/ Pending(mq, m, s1) # {}
            to == AfterOnce(mq, m, ch)
            hm == AnalysedTables(mq.w, mq.hmap, Loop2Sources(mq, m, s1) \ mq.smap[m])
            sm == [mq.smap EXCEPT ![m] = @ \cup Loop2Sources(mq, m, s1)]
        IN IF Grows(mq, m, s1)
           THEN mq' = [mq EXCEPT !.pc = "raised", !.source = s1,
                                 !.attaches = [h \in AllHeaders |->
                                     @[h] + (IF s1[h] # mq.source[h] THEN 1 ELSE 0)]]
           ELSE mq' = [mq EXCEPT
                         !.source = s2,
                         !.attaches = [h \in AllHeaders |-> @[h] + Attached(mq, m, s1, h)],
                         !.hmap = hm,
                         !.smap = sm,
                         !.pc = to,
                         !.changed = IF to = "MAIN" /\ m = "LIB" THEN FALSE
                                     ELSE (@ \/ ch),
                         !.calls = IF to = "steady" THEN @ + 1 ELSE @,
                         !.snap = IF to = "steady" /\ mq.calls = 0
                                  THEN [hmap |-> hm, smap |-> sm, source |-> s2]
                                  ELSE @]
    /\ UNCHANGED <<buildVars, cq, rq, iq, lq, vq, gq, aq>>

InitModule == BuildFrozen /\ cq = <<>> /\ rq = <<>> /\ iq = <<>> /\ ModuleInit
                /\ lq = <<>> /\ vq = <<>> /\ gq = <<>> /\ aq = <<>>
NextModule == AnalyseFiles \/ CompleteHeaderOnce
SpecModule == InitModule /\ [][NextModule]_vars

\* the analysed graph as file.py sees it: local_headers and companions
ModuleGraph == [name |-> "analysed", local |-> mq.w.edges, source |-> mq.source]

Paired(h) == mq.source[h] # NoSource

\* C12: every header that has a companion has the file name of the
\* companion, and one module's tables hold both; no header is paired with a
\* source of another module.
C12_CompanionSameStemSameModule ==
    \A h \in AllHeaders :
        Paired(h) =>
            /\ FileName(h) = FileName(mq.source[h])
            /\ \E m \in {"MAIN", "LIB"} : h \in mq.hmap[m] /\ mq.source[h] \in mq.smap[m]
            /\ Owner(h) = Owner(mq.source[h])

\* pairing ended with a source of MAIN that includes the header of LIB that
\* has its name, and with a header of LIB paired inside LIB
C12_Witness ==
    /\ mq.pc = "steady"
    /\ "a.cpp" \in mq.smap["MAIN"]
    /\ "l/a.h" \in mq.w.edges["a.cpp"]
    /\ "l/a.h" \in mq.hmap["LIB"]
    /\ \E h \in LibHeaders : Paired(h)

\* C18: a second analyse_files leaves the header and source tables and the
\* companions as the first one left them (the include edges of a file are
\* fixed when it is analysed).
C18_AnalyseFilesIdempotent ==
    (mq.pc = "steady" /\ mq.calls = 2) =>
        /\ mq.hmap = mq.snap.hmap
        /\ mq.smap = mq.snap.smap
        /\ mq.source = mq.snap.source

\* the second call ended on a module in which pairing had a choice
C18_Witness ==
    /\ mq.pc = "steady"
    /\ mq.calls = 2
    /\ \E h \in AllHeaders : Paired(h) /\ Cardinality(Twins(mq.w, Owner(h), h)) > 1

\* C19: no analysed source is in its own sources().
C19_SourceNotInOwnSources ==
    \A s \in mq.smap["MAIN"] \cup mq.smap["LIB"] : s \notin SourceSources(ModuleGraph, s)

\* a source includes the header it is the companion of
C19_Witness ==
    \E s \in mq.smap["MAIN"] \cup mq.smap["LIB"] :
        /\ s \in FileSources(ModuleGraph, s)
        /\ \E h \in mq.w.edges[s] : mq.source[h] = s

\* C20: attach_source is applied at most once to a header.
C20_CompanionAttachedOnce ==
    \A h \in AllHeaders : mq.attaches[h] <= 1

(***************************************************************************)
(* SpecLibrary: DependencyManager.register_library (src/base/module.py).   *)
(* A Library object is [id, name, fields]: id tells the objects apart,     *)
(* fields stands for pattern, include, libpath and libs.  lq holds the     *)
(* table _lib_mapping, the list _global_libs, whether the process is       *)
(* running, the last call with what it returned, and the names some        *)
(* successful call registered as global.                                   *)
(***************************************************************************)
MaxRegs == 4
LibNames == {"fmt", "boost"}
LibFields == {"v1", "v2"}
NoLib == [id |-> 0, name |-> "-", fields |-> "-"]

\* libraries that always compare equal
AnyLib(a, b) == TRUE

\* the dataclass __eq__ of Library: the fields, not the identity
LibEq(a, b) == a.name = b.name /\ a.fields = b.fields

\* is_global, whatever the list holds
AppendsAlways(gl, ret, g) == g

\* `is_global and not ret in self._global_libs`
AppendsGlobal(gl, ret, g) == g /\ ~(\E k \in 1..Len(gl) : LibEq(gl[k], ret))

LibraryInit ==
    lq = [table |-> [n \in LibNames |-> NoLib],
          globals |-> <<>>,
          pc |-> "running",
          exitCode |-> -1,
          n |-> 0,
          last |-> <<>>,
          greq |-> {}]

\* register_library(library, is_global), library a new object
RegisterLibrary(name, fields, g) ==
    /\ lq.pc = "running"
    /\ lq.n < MaxRegs
    /\ LET library == [id |-> lq.n + 1, name |-> name, fields |-> fields]
           old == lq.table[name]
           fatal == old # NoLib /\ ~LibEq(old, library)
           table == IF old = NoLib THEN [lq.table EXCEPT ![name] = library] ELSE lq.table
           ret == table[name]
           call == [lib |-> library, glob |-> g, before |-> lq.table,
                    gbefore |-> lq.globals]
       IN IF fatal
          THEN lq' = [lq EXCEPT !.pc = "exited", !.exitCode = DefaultExit,
                                !.n = @ + 1,
                                !.last = call @@ [ret |-> NoLib]]
          ELSE lq' = [lq EXCEPT
                        !.table = table,
                        !.globals = IF AppendsGlobal(lq.globals, ret, g)
                                    THEN Append(@, ret) ELSE @,
                        !.n = @ + 1,
                        !.last = call @@ [ret |-> ret],
                        !.greq = IF g THEN @ \cup {name} ELSE @]
    /\ UNCHANGED <<buildVars, cq, rq, iq, mq, vq, gq, aq>>

InitLibrary == BuildFrozen /\ cq = <<>> /\ rq = <<>> /\ iq = <<>> /\ mq = <<>>
                 /\ LibraryInit /\ vq = <<>> /\ gq = <<>> /\ aq = <<>>
NextLibrary == \E name \in LibNames, fields \in LibFields, g \in BOOLEAN :
                   RegisterLibrary(name, fields, g)
SpecLibrary == InitLibrary /\ [][NextLibrary]_vars

\* the last call found the name registered with the same fields
SameAgain ==
    /\ lq.last.before[lq.last.lib.name] # NoLib
    /\ lq.last.before[lq.last.lib.name].fields = lq.last.lib.fields

\* the last call found the name registered with other fields
Differing ==
    /\ lq.last.before[lq.last.lib.name] # NoLib
    /\ lq.last.before[lq.last.lib.name].fields # lq.last.lib.fields

\* C14: a name not yet present is inserted; the same fields under a present
\* name leave the table as it is and return the object registered first;
\* other fields under a present name end the process and leave the table
\* and the global list as they were.
C14_RegisterDeterministic ==
    lq.last # <<>> =>
        /\ lq.last.before[lq.last.lib.name] = NoLib =>
               /\ lq.pc = "running"
               /\ lq.table = [lq.last.before EXCEPT ![lq.last.lib.name] = lq.last.lib]
               /\ lq.last.ret = lq.last.lib
        /\ SameAgain =>
               /\ lq.pc = "running"
               /\ lq.table = lq.last.before
               /\ lq.last.ret = lq.last.before[lq.last.lib.name]
        /\ Differing =>
               /\ lq.pc = "exited"
               /\ lq.exitCode # 0
               /\ lq.table = lq.last.before
               /\ lq.globals = lq.last.gbefore

\* a library was registered again with the same fields as another object,
\* and the first object came back
C14_Witness ==
    /\ lq.last # <<>>
    /\ SameAgain
    /\ lq.last.ret.id # lq.last.lib.id
    /\ lq.last.glob

GlobalNames == {lq.globals[k].name : k \in 1..Len(lq.globals)}

\* the table only grows: a name that is bound stays bound to its Library
AppendOnly ==
    \A n \in LibNames : lq.table[n] # NoLib => lq'.table[n] = lq.table[n]

\* C15: the table is append-only, the global list has no duplicate, each of
\* its members is the table's Library for its name, and a library is in it
\* exactly when a call registered its name with is_global = true.
C15_TableAppendOnlyGlobalsExact ==
    /\ [][AppendOnly]_vars
    /\ [](/\ \A j, k \in 1..Len(lq.globals) : lq.globals[j] = lq.globals[k] => j = k
          /\ \A k \in 1..Len(lq.globals) : lq.globals[k] = lq.table[lq.globals[k].name]
          /\ GlobalNames = lq.greq)

\* a global library was registered as global a second time, after another
\* library had become global
C15_Witness ==
    /\ lq.last # <<>>
    /\ lq.last.glob
    /\ SameAgain
    /\ lq.last.lib.name \in {lq.last.gbefore[k].name : k \in 1..Len(lq.last.gbefore)}
    /\ Len(lq.globals) = 2

(***************************************************************************)
(* SpecCompiler: select_compiler and Compiler._select_version              *)
(* (src/base/compiler.py).  A version is a tuple of integers.  vq holds    *)
(* the versions of the g++ and clang++ candidates found on PATH, in the    *)
(* order they were found, the preference, the compiler chosen and the      *)
(* standard selected for it.                                               *)
(***************************************************************************)
RECURSIVE TupleLess(_, _)
\* Python's < on tuples of integers
TupleLess(a, b) ==
    IF b = <<>> THEN FALSE
    ELSE IF a = <<>> THEN TRUE
    ELSE IF a[1] # b[1] THEN a[1] < b[1]
    ELSE TupleLess(Tail(a), Tail(b))

\* Python's <= on tuples
TupleLe(a, b) == a = b \/ TupleLess(a, b)

\* GccCompiler.VERSION_DETAILS
GccDetails ==
    << <<<<4, 7, 1>>, "c++11">>, <<<<4, 9>>, "c++14">>, <<<<5, 1>>, "c++17">>,
       <<<<10, 1>>, "c++20">>, <<<<11, 1>>, "c++23">> >>

\* ClangCompiler.VERSION_DETAILS
ClangDetails ==
    << <<<<3, 3>>, "c++11">>, <<<<3, 4>>, "c++14">>, <<<<5>>, "c++17">>,
       <<<<10>>, "c++20">>, <<<<17, 0, 1>>, "c++26">> >>

VersionDetails(family) == IF family = "g++" THEN GccDetails ELSE ClangDetails

\* Compiler._select_version: the last entry whose threshold is <= version;
\* [-1] of an empty list raises IndexError
SelectVersion(version, details) ==
    LET reached == SelectSeq(details, LAMBDA d : TupleLe(d[1], version))
    IN IF reached = <<>> THEN "raise" ELSE reached[Len(reached)][2]

\* max(compilers, key=version): the first of the highest version; max of an
\* empty list raises ValueError
MaxByVersion(family, versions) ==
    IF versions = <<>> THEN [kind |-> "raise"]
    ELSE [kind |-> "compiler", family |-> family,
          version |-> versions[CHOOSE k \in 1..Len(versions) :
                          /\ \A j \in 1..Len(versions) : TupleLe(versions[j], versions[k])
                          /\ \A j \in 1..(k - 1) : versions[j] # versions[k]]]

\* select_compiler(prefer) once the candidates are listed
SelectCompilerOf(gccs, clangs, prefer) ==
    IF Len(gccs) + Len(clangs) = 0 THEN [kind |-> "exit"]
    ELSE IF prefer = "g++" \/ Len(clangs) = 0 THEN MaxByVersion("g++", gccs)
    ELSE MaxByVersion("clang++", clangs)

Versions == {<<3, 2>>, <<4, 7>>, <<4, 7, 1>>, <<5>>, <<11, 1>>, <<17, 0, 1>>}
Candidates == {<<>>} \cup {<<v>> : v \in Versions} \cup {<<v, w>> : v, w \in Versions}

CompilerInit ==
    vq \in [gccs : Candidates, clangs : Candidates, prefer : {"g++", "clang++"},
            chosen : {[kind |-> "unset"]}, std : {"unset"}]

\* tiny-make.py: compiler = select_compiler(config.prefer)
SelectCompiler ==
    /\ vq.chosen.kind = "unset"
    /\ vq' = [vq EXCEPT !.chosen = SelectCompilerOf(vq.gccs, vq.clangs, vq.prefer)]
    /\ UNCHANGED <<buildVars, cq, rq, iq, mq, lq, gq, aq>>

\* compile_record: self.max_cpp_std_version() of the chosen compiler
MaxCppStdVersion ==
    /\ vq.chosen.kind = "compiler"
    /\ vq.std = "unset"
    /\ vq' = [vq EXCEPT !.std = SelectVersion(vq.chosen.version,
                                              VersionDetails(vq.chosen.family))]
    /\ UNCHANGED <<buildVars, cq, rq, iq, mq, lq, gq, aq>>

InitCompiler == BuildFrozen /\ cq = <<>> /\ rq = <<>> /\ iq = <<>> /\ mq = <<>>
                  /\ lq = <<>> /\ CompilerInit /\ gq = <<>> /\ aq = <<>>
NextCompiler == SelectCompiler \/ MaxCppStdVersion
SpecCompiler == InitCompiler /\ [][NextCompiler]_vars

\* the version is below every threshold of the table
BelowAll(version, details) ==
    \A k \in 1..Len(details) : TupleLess(version, details[k][1])

\* C16: for a compiler whose version is below every threshold of its table,
\* the standard selected is that of the lowest threshold, c++11.
C16_BelowAllThresholdsGivesLowest ==
    (vq.std # "unset" /\ BelowAll(vq.chosen.version, VersionDetails(vq.chosen.family)))
        => vq.std = "c++11"

Family(f) == IF f = "g++" THEN vq.gccs ELSE vq.clangs
Other(f) == IF f = "g++" THEN "clang++" ELSE "g++"
IsHighest(c, f) ==
    /\ c.kind = "compiler"
    /\ c.family = f
    /\ c.version \in Range(Family(f))
    /\ \A v \in Range(Family(f)) : TupleLe(v, c.version)

\* C17: with at least one candidate, the compiler chosen is the
\* highest-versioned one of the preferred family, or of the other family
\* when the preferred one has no candidate.
C17_PreferredElseOtherFamily ==
    (vq.chosen.kind # "unset" /\ Len(vq.gccs) + Len(vq.clangs) > 0) =>
        IF Family(vq.prefer) # <<>> THEN IsHighest(vq.chosen, vq.prefer)
        ELSE IsHighest(vq.chosen, Other(vq.prefer))

(***************************************************************************)
(* SpecGraph: Project.__init__ builds the module graph from the link       *)
(* declarations of the modules' configurations (link_module_path and       *)
(* Module.__init__ call each other), then analyse_files of the main module *)
(* runs the epochs of companion pairing over the links.  The call stack is *)
(* explicit: a frame of the construction is a Module.__init__ at its k-th  *)
(* link, a frame of the pairing is a _complete_header_epoch before its     *)
(* links (k = 0) or at its k-th link.  What one _complete_header_once does *)
(* to the tables is in SpecModule; here a module only has headers left to  *)
(* pair or not (todo), and pairing them may analyse sources that include   *)
(* headers of other modules, which then have headers left to pair (lazy).  *)
(* gq = [decl, todo, lazy, made, mods, built, objs, links, state, stack,   *)
(* pc, attached, quiet, epochs]; attached says whether the running epoch   *)
(* attached a companion, quiet counts the epochs that ended without.       *)
(***************************************************************************)
MaxLinks == 2

\* the directories a configuration may link, and the names of their modules
Dirs == {".", "x", "y", "v/x"}
ModNames == {"MAIN", "x", "y"}

\* os.path.split(path)[-1]
Basename(d) == IF d = "v/x" THEN "x" ELSE d

\* env.add_link_path(path) with the symlinks made so far: "." for the root,
\* else the symlink named after the directory's base name, "exit" when that
\* name is already a symlink to another directory
AddLinkPath(made, d) ==
    IF d = "." THEN [link |-> ".", made |-> made]
    ELSE IF made[Basename(d)] = "none"
    THEN [link |-> Basename(d), made |-> [made EXCEPT ![Basename(d)] = d]]
    ELSE IF made[Basename(d)] = d THEN [link |-> Basename(d), made |-> made]
    ELSE [link |-> "exit", made |-> made]

ModuleName(path) == IF path = "." THEN "MAIN" ELSE path

\* the directory a module path stands for
ModuleDir(made, path) == IF path = "." THEN "." ELSE made[path]

\* register_module: _mod_mapping.setdefault(module.name, module)
RegisterModule(mods, name, obj) ==
    IF mods[name] = 0 THEN [mods EXCEPT ![name] = obj] ELSE mods

\* a Module.__init__ that registers nothing before it resolves its links
RegisterAfterwards(mods, name, obj) == mods

\* Module.__init__: "register self beforehand to solve cyclic link"
RegisterBeforehand(mods, name, obj) == RegisterModule(mods, name, obj)

\* the link declarations of a directory's configuration
LinkLists(ds, n) == UNION {SeqsOf(s) : s \in {t \in SUBSET ds : Cardinality(t) <= n}}

GraphInit ==
    /\ \E d0 \in LinkLists({".", "x", "y"}, MaxLinks),
          d1 \in LinkLists({".", "x", "y"}, 1),
          d2 \in LinkLists({".", "v/x"}, 1),
          td \in SUBSET ModNames,
          lz \in {<<>>, <<"MAIN", "x">>, <<"x", "y">>, <<"x", "x">>} :
         gq = [decl |-> [d \in Dirs |-> IF d = "." THEN d0 ELSE IF d = "x" THEN d1
                                        ELSE IF d = "y" THEN d2 ELSE <<>>],
               todo |-> td,
               lazy |-> lz,
               made |-> [n \in {"x", "y"} |-> "none"],
               mods |-> [n \in ModNames |-> 0],
               built |-> [n \in ModNames |-> 0],
               objs |-> 0,
               links |-> [n \in ModNames |-> <<>>],
               state |-> [n \in ModNames |-> "none"],
               stack |-> <<>>,
               pc |-> "new",
               attached |-> FALSE,
               quiet |-> 0,
               epochs |-> 0]

Top == gq.stack[Len(gq.stack)]
Pop == SubSeq(gq.stack, 1, Len(gq.stack) - 1)
SetTop(f) == [gq.stack EXCEPT ![Len(gq.stack)] = f]

\* Module(link, mgr) starts: the object exists and is registered, its links
\* are still to be resolved
Construct(q, name, dir) ==
    [q EXCEPT !.objs = @ + 1,
              !.built[name] = @ + 1,
              !.mods = RegisterBeforehand(q.mods, name, q.objs + 1),
              !.stack = Append(@, [mod |-> name, obj |-> q.objs + 1, dir |-> dir, k |-> 1])]

\* Project.__init__: self._main = link_module_path(None, path)
LoadProject ==
    /\ gq.pc = "new"
    /\ gq' = [Construct(gq, "MAIN", ".") EXCEPT !.pc = "load"]
    /\ UNCHANGED <<buildVars, cq, rq, iq, mq, lq, vq, aq>>

\* Module.__init__ at its next link: link_module_path(self, link) exits,
\* constructs the module of a name not in the table, or returns the module
\* the table has
ResolveLink ==
    /\ gq.pc = "load"
    /\ Top.k <= Len(gq.decl[Top.dir])
    /\ LET r == AddLinkPath(gq.made, gq.decl[Top.dir][Top.k])
           name == ModuleName(r.link)
       IN  gq' = IF r.link = "exit" THEN [gq EXCEPT !.pc = "exited"]
                 ELSE IF gq.mods[name] = 0
                 THEN Construct([gq EXCEPT !.made = r.made], name, ModuleDir(r.made, r.link))
                 ELSE [gq EXCEPT !.made = r.made,
                                 !.links[Top.mod] = Append(@, name),
                                 !.stack = SetTop([Top EXCEPT !.k = @ + 1])]
    /\ UNCHANGED <<buildVars, cq, rq, iq, mq, lq, vq, aq>>

\* Module.__init__ ends (self._state = STEADY), link_module_path registers
\* the module again and returns the table's module to the caller
ModuleBuilt ==
    /\ gq.pc = "load"
    /\ Top.k > Len(gq.decl[Top.dir])
    /\ LET mods == RegisterModule(gq.mods, Top.mod, Top.obj)
           rest == Pop
       IN  gq' = [gq EXCEPT
                    !.mods = mods,
                    !.state[Top.mod] = "STEADY",
                    !.stack = IF rest = <<>> THEN rest
                              ELSE [rest EXCEPT ![Len(rest)].k = @ + 1],
                    !.links = IF rest = <<>> THEN @
                              ELSE [@ EXCEPT ![rest[Len(rest)].mod] = Append(@, Top.mod)],
                    !.pc = IF rest = <<>> THEN "pair" ELSE "load"]
    /\ UNCHANGED <<buildVars, cq, rq, iq, mq, lq, vq, aq>>

\* an epoch that never passes over a linked module
NeverCompleting(state, mod) == FALSE

\* mod._state == ModuleState.COMPLETING
IsCompleting(state, mod) == state[mod] = "COMPLETING"

\* _complete_header_epoch of a module starts: self._state = COMPLETING
Enter(q, mod) ==
    [q EXCEPT !.state[mod] = "COMPLETING",
              !.stack = Append(@, [mod |-> mod, k |-> 0, changed |-> FALSE])]

\* analyse_files of the main module calls _complete_header: the first epoch
CompleteHeader ==
    /\ gq.pc = "pair"
    /\ gq' = [Enter(gq, "MAIN") EXCEPT !.pc = "epoch", !.epochs = 1]
    /\ UNCHANGED <<buildVars, cq, rq, iq, mq, lq, vq, aq>>

\* the modules in which pairing the headers of mod finds headers to pair
Lazy(q, mod) ==
    IF q.lazy # <<>> /\ q.lazy[1] = mod /\ q.lazy[2] \in Range(q.links[mod]) \cup {mod}
    THEN {q.lazy[2]} ELSE {}

\* while self._complete_header_once(): changed = True.  A call attaches the
\* companions of the module's headers and returns True, or finds nothing to
\* attach, returns False and ends the loop; a header table that grows while
\* it is iterated raises (see SpecModule)
PairOnce ==
    /\ gq.pc = "epoch"
    /\ Top.k = 0
    /\ gq' = IF Top.mod \notin gq.todo
             THEN [gq EXCEPT !.stack = SetTop([Top EXCEPT !.k = 1])]
             ELSE IF Top.mod \in Lazy(gq, Top.mod)
             THEN [gq EXCEPT !.pc = "raised"]
             ELSE [gq EXCEPT !.todo = (@ \ {Top.mod}) \cup Lazy(gq, Top.mod),
                             !.lazy = IF Lazy(gq, Top.mod) = {} THEN @ ELSE <<>>,
                             !.attached = TRUE,
                             !.stack = SetTop([Top EXCEPT !.changed = TRUE])]
    /\ UNCHANGED <<buildVars, cq, rq, iq, mq, lq, vq, aq>>

\* for mod in self._links: a module that is COMPLETING is passed over, any
\* other module runs its own epoch
EpochLink ==
    /\ gq.pc = "epoch"
    /\ Top.k \in 1..Len(gq.links[Top.mod])
    /\ LET mod == gq.links[Top.mod][Top.k]
       IN  gq' = IF IsCompleting(gq.state, mod)
                 THEN [gq EXCEPT !.stack = SetTop([Top EXCEPT !.k = @ + 1])]
                 ELSE Enter(gq, mod)
    /\ UNCHANGED <<buildVars, cq, rq, iq, mq, lq, vq, aq>>

\* _complete_header_epoch ends: self._state = STEADY; return changed.  The
\* caller is the epoch of the linking module, or the loop of
\* _complete_header, which runs one more epoch when this one changed
EpochReturn ==
    /\ gq.pc = "epoch"
    /\ Top.k > Len(gq.links[Top.mod])
    /\ LET rest == Pop
           back == [gq EXCEPT !.state[Top.mod] = "STEADY"]
       IN  gq' = IF rest # <<>>
                 THEN [back EXCEPT !.stack =
                          [rest EXCEPT ![Len(rest)].k = @ + 1,
                                       ![Len(rest)].changed = @ \/ Top.changed]]
                 ELSE IF Top.changed
                 THEN [Enter([back EXCEPT !.stack = rest], "MAIN") EXCEPT
                          !.attached = FALSE, !.epochs = @ + 1,
                          !.quiet = IF gq.attached THEN @ ELSE @ + 1]
                 ELSE [back EXCEPT !.stack = rest, !.pc = "steady",
                                   !.quiet = IF gq.attached THEN @ ELSE @ + 1]
    /\ UNCHANGED <<buildVars, cq, rq, iq, mq, lq, vq, aq>>

InitGraph == BuildFrozen /\ cq = <<>> /\ rq = <<>> /\ iq = <<>> /\ mq = <<>>
               /\ lq = <<>> /\ vq = <<>> /\ GraphInit /\ aq = <<>>
NextGraph == LoadProject \/ ResolveLink \/ ModuleBuilt
               \/ CompleteHeader \/ PairOnce \/ EpochLink \/ EpochReturn
\* the interpreter runs the constructor and the pairing to their end
SpecGraph == InitGraph /\ [][NextGraph]_vars /\ WF_vars(NextGraph)

\* no module is in two frames of the pairing at once
NoReentry ==
    gq.pc = "epoch" =>
        \A i, j \in 1..Len(gq.stack) : i # j => gq.stack[i].mod # gq.stack[j].mod

\* the pairing returned: every module is STEADY and the epoch that ended
\* was the first one to attach nothing
Returned ==
    /\ \A n \in ModNames : gq.state[n] \in {"none", "STEADY"}
    /\ ~gq.attached
    /\ gq.quiet = 1

\* C21: companion pairing terminates on every module graph, link cycles and
\* self links included: a started pairing returns or raises; no module is
\* entered while it is being completed; when the pairing has returned every
\* module is STEADY again; and the driver stops after the first epoch in
\* which no companion was attached (it runs no epoch after such an epoch).
C21_PairingTerminates ==
    /\ [](gq # <<>> => NoReentry)
    /\ [](gq # <<>> /\ gq.pc = "steady" => Returned)
    /\ [](gq # <<>> /\ gq.pc = "epoch" => gq.quiet = 0)
    /\ ((gq # <<>> /\ gq.pc = "pair") ~> (gq.pc \in {"steady", "raised"}))

\* the pairing returned after a second epoch over a link cycle and a self link
C21_Witness ==
    /\ gq # <<>>
    /\ gq.pc = "steady"
    /\ gq.epochs >= 2
    /\ "MAIN" \in Range(gq.links["x"])
    /\ "x" \in Range(gq.links["MAIN"])
    /\ "MAIN" \in Range(gq.links["MAIN"])

\* C22: the construction of the module graph terminates on every set of
\* link declarations, cyclic and self links included: it ends in the
\* pairing or in an exit; every registered name has exactly one Module
\* object constructed for it and no other name has any; and a name that is
\* registered keeps the module it was first registered with.
C22_OneModulePerName ==
    /\ [](gq # <<>> => \A n \in ModNames :
                          gq.built[n] = IF gq.mods[n] # 0 THEN 1 ELSE 0)
    /\ [][gq # <<>> => \A n \in ModNames :
                          gq.mods[n] # 0 => gq'.mods[n] = gq.mods[n]]_vars
    /\ <>(gq # <<>> /\ gq.pc \notin {"new", "load"})

\* the graph is built from a self link of the main module and a link cycle
\* between the main module and x
C22_Witness ==
    /\ gq # <<>>
    /\ gq.pc = "pair"
    /\ "MAIN" \in Range(gq.links["x"])
    /\ "x" \in Range(gq.links["MAIN"])
    /\ "MAIN" \in Range(gq.links["MAIN"])

(***************************************************************************)
(* src/base/file.py: the options and the libraries of a source, over the   *)
(* graph SpecModule analysed.  Every file carries one local option of its  *)
(* own, so that the options of a source tell the files they come from.     *)
(***************************************************************************)
\* File._local_opts
LocalOpts(f) == {<<"-D", f>>}

RECURSIVE FileOptions(_, _)
\* File.options: the local options and those of the local headers
FileOptions(g, f) == LocalOpts(f) \cup UNION {FileOptions(g, h) : h \in g.local[f]}

\* Source.options
SourceOptions(g, s) == FileOptions(g, s) \cup LocalOpts(s)

RECURSIVE Visited(_, _)
\* the files Source.libraries visits from the files F: the local headers of
\* a visited file and the companion source of a visited header
Visited(g, F) ==
    LET more == F \cup UNION {g.local[f] : f \in F}
                  \cup {g.source[h] : h \in {x \in F \cap AllHeaders : g.source[x] # NoSource}}
    IN  IF more = F THEN F ELSE Visited(g, more)

\* C23: the options of a source are the local options of the files that
\* its libraries() visits (the headers it reaches and their companion
\* sources), so the options of a companion source reached through an
\* included header are among them.
C23_OptionsOverLibrariesClosure ==
    mq # <<>> /\ mq.pc = "steady" =>
        \A s \in mq.smap["MAIN"] \cup mq.smap["LIB"] :
            SourceOptions(ModuleGraph, s) =
                UNION {LocalOpts(f) : f \in Visited(ModuleGraph, {s})}

\* C24: within one run, whether an object record is skipped or spawned
\* depends only on the cache file and the files as they were when the run
\* started: the compiles spawned are those of the records that were stale
\* at the start, whatever the compiles spawned earlier in the loop have
\* written by the time a record is looked at.
C24_DecisionFromStartState ==
    Scheduled => Batch = hist.stale

(***************************************************************************)
(* SpecRepeat: the driver of Spec invoked again and again on a project in  *)
(* which no file is edited and every compile and every link succeeds.  An  *)
(* invocation that has started runs on, its children run on, and the user  *)
(* invokes the driver again when it has ended: some step is always taken.  *)
(***************************************************************************)
RepeatNext ==
    \/ StartRun
    \/ SchedSkip
    \/ SchedSpawn
    \/ SchedRaise
    \/ \E s \in Units : ProcWrite(s)
    \/ \E s \in Units : ProcOk(s)
    \/ WaitFirst
    \/ Link
    \/ LinkOk
    \/ Save

SpecRepeat == Init /\ [][RepeatNext]_vars /\ WF_vars(RepeatNext)

\* a run found every record fresh: it spawned nothing and ended in success
QuietRun ==
    /\ hist.live
    /\ pc = "exited"
    /\ exitCode = 0
    /\ procs = <<>>
    /\ link = "none"

\* C25: with no file edited, repeated successful invocations reach a run in
\* which every record is fresh and nothing is spawned, on every graph (an
\* invocation that ends in failure is not one of them).
C25_EventuallyQuietRun == <>(QuietRun \/ (pc = "exited" /\ exitCode # 0))

\* C26: the object set of the entry source S is closed under companions:
\* for every T in S.sources() or S itself, the companion source of every
\* header T includes, directly or through other headers, has an object
\* record of the run or is S.
C26_ObjectSetClosed ==
    Scheduled =>
        LET objs == Range(records) \cup {MainSource}
        IN  \A t \in objs : \A h \in FileHeaders(graph, t) :
                graph.source[h] # NoSource => graph.source[h] \in objs

(***************************************************************************)
(* SpecAnalyse: analyse_files of one module whose headers include each     *)
(* other, with the calls of _analyse_header and _analyse_file as an        *)
(* explicit stack: a frame is the analysis of a header at its k-th         *)
(* include.  The interpreter raises RecursionError when the stack would    *)
(* grow past its limit, which MaxDepth stands for (it is larger than the   *)
(* number of headers, so no analysis without a cycle reaches it).          *)
(* aq = [incl, todo, hmap, created, stack, pc].                            *)
(***************************************************************************)
MaxDepth == 4
MaxIncl == 2

\* the header paths of the module
HeaderPaths == {"p.h", "q.h", "r.h"}

AnalyseInit ==
    aq \in [incl : [HeaderPaths -> LinkLists(HeaderPaths, MaxIncl)],
            todo : SeqsOf(HeaderPaths),
            hmap : {{}},
            created : {[p \in HeaderPaths |-> 0]},
            stack : {<<>>},
            pc : {"run"}]

\* _analyse_header(path) is called: the header the table has is returned,
\* else _analyse_file(path) starts, or the interpreter's stack is exhausted
Call(q, path, back) ==
    IF path \in q.hmap THEN back
    ELSE IF Len(q.stack) >= MaxDepth THEN [q EXCEPT !.pc = "raised"]
    ELSE [back EXCEPT !.stack = Append(@, [path |-> path, k |-> 1])]

\* analyse_files: for header in self._header_paths: self._analyse_header(header)
AnalyseNextHeader ==
    /\ aq.pc = "run"
    /\ aq.stack = <<>>
    /\ aq' = IF aq.todo = <<>> THEN [aq EXCEPT !.pc = "done"]
             ELSE Call(aq, Head(aq.todo), [aq EXCEPT !.todo = Tail(@)])
    /\ UNCHANGED <<buildVars, cq, rq, iq, mq, lq, vq, gq>>

\* _analyse_file at its next include: _find_qinclude resolves it to a header
\* of the module and calls _analyse_header for it
AnalyseIncludeOf ==
    /\ aq.pc = "run"
    /\ aq.stack # <<>>
    /\ LET top == aq.stack[Len(aq.stack)]
       IN  /\ top.k <= Len(aq.incl[top.path])
           /\ aq' = Call(aq, aq.incl[top.path][top.k],
                         [aq EXCEPT !.stack[Len(aq.stack)].k = @ + 1])
    /\ UNCHANGED <<buildVars, cq, rq, iq, mq, lq, vq, gq>>

\* _analyse_file returns the Header it constructed and _analyse_header puts
\* it into the table: self._headers_mapping.setdefault(path, header)
HeaderAnalysed ==
    /\ aq.pc = "run"
    /\ aq.stack # <<>>
    /\ LET top == aq.stack[Len(aq.stack)]
       IN  /\ top.k > Len(aq.incl[top.path])
           /\ aq' = [aq EXCEPT !.created[top.path] = @ + 1,
                               !.hmap = @ \cup {top.path},
                               !.stack = SubSeq(@, 1, Len(@) - 1)]
    /\ UNCHANGED <<buildVars, cq, rq, iq, mq, lq, vq, gq>>

InitAnalyse == BuildFrozen /\ cq = <<>> /\ rq = <<>> /\ iq = <<>> /\ mq = <<>>
                 /\ lq = <<>> /\ vq = <<>> /\ gq = <<>> /\ AnalyseInit
NextAnalyse == AnalyseNextHeader \/ AnalyseIncludeOf \/ HeaderAnalysed
SpecAnalyse == InitAnalyse /\ [][NextAnalyse]_vars

\* C27: the analysis of the files of a module terminates and creates
\* exactly one Header per path, cyclic header includes and a header that
\* includes itself included: no analysis ends in an exhausted stack, no path
\* ever has two Headers, and when analyse_files has ended every header path
\* has one.
C27_AnalysisTerminatesOneHeaderPerPath ==
    aq # <<>> =>
        /\ aq.pc # "raised"
        /\ \A p \in HeaderPaths : aq.created[p] <= 1
        /\ (aq.pc = "done" => \A p \in HeaderPaths : aq.created[p] = 1)

\* C28: during a pairing pass no header is added to the header table of a
\* module while the pass iterates it: the pairing of a lazily analysed
\* header of a linked module with its companion completes normally, also
\* when the analysis of the companion resolves an include to a header of
\* that module that was not analysed before.
C28_NoTableGrowthWhileIterated ==
    mq # <<>> => mq.pc # "raised"

\* C29: the resolution of an include within a module is a function of the
\* set of header paths and the include string: whatever the order in which
\* the set is iterated, the same header and directory are chosen, also when
\* several paths match; and an include that is equal to a header path
\* resolves to that path, with directory ".".
C29_SelfResolutionDeterministic ==
    (iq # <<>> /\ iq.res # <<>>) =>
        \A m \in Mods :
            /\ Cardinality(FindSelfInclude(iq, m, iq.include)) = 1
            /\ (iq.include \in iq.paths[m] =>
                    FindSelfInclude(iq, m, iq.include) =
                        {[kind |-> "header", dir |-> <<".">>,
                          path |-> iq.include, owner |-> m]})

====
